---- MODULE Spec2Model ----
(***************************************************************************)
(* MyGit: object store, staging index, reference store and the repository  *)
(* engine (src/src/ObjectStore.js, src/src/MyGit.js).                       *)
(*                                                                         *)
(* The state is the content of the .mygit directory (HEAD, refs/heads,     *)
(* index, objects), the wall clock, and, for every handle (a MyGit object  *)
(* over the same root), the position of its running operation and the      *)
(* result of its last one.                                                 *)
(***************************************************************************)
EXTENDS Integers, Sequences, FiniteSets, TLC

VARIABLES head, refs, index, objects, now, pc, local, ret, prev, ov

vars == <<head, refs, index, objects, now, pc, local, ret, prev, ov>>
disk == <<head, refs, index, objects>>

\* ------------------------------------------------------------ bounds
\* the wall clock does not advance beyond MaxNow (milliseconds)
MaxNow == 500
\* no commit is started once MaxCommits commit objects are stored
MaxCommits == 2
\* history limits are drawn from 0..MaxCount
MaxCount == 2
\* createTree is given lists of at most MaxEntries entries
MaxEntries == 2

\* ------------------------------------------------------------ inputs
\* the steps the wall clock can take between two operations, in milliseconds
Ticks == {500}
Handles == {1, 2}
\* the handle that issues the operations of the one-at-a-time specification
Seq1 == CHOOSE p \in Handles : \A q \in Handles : p <= q
Paths == {"a.txt", "b.txt"}
\* the content the working tree can hold at a path
FileContent(p) == IF p = "a.txt" THEN "hello" ELSE "world"
\* a commit message is a sequence of lines, a line a sequence of words
Messages == {<< <<"msg">> >>}
BranchNames == {"master", "feature"}
\* I/O faults a commit can meet: none, or the failure of one of its steps
IOFaults == {"none", "tree", "tip", "commit", "update"}

None == <<>>
Some(x) == <<x>>

\* JavaScript String.length of the atoms the model uses
StrLen(s) ==
    CASE s = "hello" -> 5
      [] s = "world" -> 5
      [] s = "a.txt" -> 5
      [] s = "b.txt" -> 5
      [] s = "B.txt" -> 5
      [] s = "U00E9.txt" -> 5
      [] s = "e+U0301.txt" -> 6
      [] s = "msg" -> 3
      [] s = "my file.txt" -> 11
      [] s = "" -> 0
      [] s = "tree" -> 4
      [] s = "parent" -> 6
      [] s = "cafU00E9" -> 4
      [] s = "MyGit User <user@mygit.com>" -> 27
      [] s = "+0000" -> 5
      [] s = "100644" -> 6
      [] OTHER -> 1

\* length of the UTF-8 encoding of the atoms: U+00E9 and U+0301 take two bytes
ByteLen(s) ==
    CASE s = "cafU00E9" -> 5
      [] s = "U00E9.txt" -> 6
      [] s = "e+U0301.txt" -> 7
      [] OTHER -> StrLen(s)

RECURSIVE Digits(_)
\* number of decimal digits of n >= 0, as template-literal interpolation prints it
Digits(n) == IF n < 10 THEN 1 ELSE 1 + Digits(n \div 10)

\* length of a hex fingerprint, and of its binary form inside a tree
HexLen == 40
RawLen == 20

\* ------------------------------------------------------------ ObjectStore
\* results of fallible calls: ok, the error kind thrown, the value returned
Ok(v) == [ok |-> TRUE, err |-> "none", val |-> v]
Err(kind) == [ok |-> FALSE, err |-> kind, val |-> None]

\* SHA-1 of a buffer, taken as collision-free: the digest determines the buffer
hash(content) == <<"sha1", content>>

RECURSIVE TreeLength(_)
\* byte length of the tree buffer: per entry "<mode> <path>\0" and 20 raw bytes
TreeLength(entries) ==
    IF Len(entries) = 0 THEN 0
    ELSE StrLen(entries[1][1]) + 1 + StrLen(entries[1][2]) + 1 + RawLen
         + TreeLength(Tail(entries))

RECURSIVE WordsLength(_)
\* length of a line of plain words joined by single spaces
WordsLength(line) ==
    IF Len(line) = 0 THEN 0
    ELSE StrLen(line[1]) + (IF Len(line) > 1 THEN 1 ELSE 0) + WordsLength(Tail(line))

\* length of one line of the commit text that createCommit writes
HeaderLineLength(line) ==
    CASE Len(line) = 0 -> 0
      [] line[1] = "tree" -> 5 + HexLen
      [] line[1] = "parent" -> 7 + HexLen
      [] OTHER -> StrLen(line[1]) + 1 + StrLen(line[2]) + 1 + Digits(line[3]) + 1
                  + StrLen(line[4])

RECURSIVE CommitLength(_, _)
\* String.length of the commit text whose split('\n') is lines
CommitLength(lines, inHeader) ==
    IF Len(lines) = 0 THEN 0
    ELSE (IF inHeader THEN HeaderLineLength(lines[1]) ELSE WordsLength(lines[1]))
         + (IF Len(lines) > 1 THEN 1 ELSE 0)
         + CommitLength(Tail(lines), inHeader /\ Len(lines[1]) > 0)

\* content.length as storeObject reads it: bytes of a Buffer (blob, tree),
\* UTF-16 code units of a string (commit)
ContentLength(type, content) ==
    CASE type = "blob" -> ByteLen(content)
      [] type = "tree" -> TreeLength(content)
      [] OTHER -> CommitLength(content, TRUE)

RECURSIVE WordsBytes(_)
\* bytes of the UTF-8 encoding of a line of plain words joined by single spaces
WordsBytes(line) ==
    IF Len(line) = 0 THEN 0
    ELSE ByteLen(line[1]) + (IF Len(line) > 1 THEN 1 ELSE 0) + WordsBytes(Tail(line))

RECURSIVE CommitBytes(_, _)
\* bytes of Buffer.from(commitContent): the header lines are ASCII, the
\* message is encoded as UTF-8
CommitBytes(lines, inHeader) ==
    IF Len(lines) = 0 THEN 0
    ELSE (IF inHeader THEN HeaderLineLength(lines[1]) ELSE WordsBytes(lines[1]))
         + (IF Len(lines) > 1 THEN 1 ELSE 0)
         + CommitBytes(Tail(lines), inHeader /\ Len(lines[1]) > 0)

\* number of bytes Buffer.from(content) appends after the header
PayloadBytes(type, content) ==
    CASE type = "blob" -> ByteLen(content)
      [] type = "tree" -> TreeLength(content)
      [] OTHER -> CommitBytes(content, TRUE)

\* the write of storeObject keeping a file it finds and adding a second one
storeObject_Put_Copy(objs, h, fullContent) ==
    IF h \in DOMAIN objs
    THEN [k \in DOMAIN objs \cup {<<"copy", h>>} |-> IF k \in DOMAIN objs THEN objs[k] ELSE fullContent]
    ELSE [k \in DOMAIN objs \cup {h} |-> IF k = h THEN fullContent ELSE objs[k]]

\* the write of storeObject left out
storeObject_Put_Skip(objs, h, fullContent) == objs

\* the write of storeObject into an objects directory it has emptied
storeObject_Put_Only(objs, h, fullContent) == [k \in {h} |-> fullContent]

\* fs.writeFile(objectPath, fullContent): the file is created or overwritten
storeObject_Put(objs, h, fullContent) ==
    [k \in DOMAIN objs \cup {h} |-> IF k = h THEN fullContent ELSE objs[k]]

\* storeObject: header "type size\0", then the content; the file is named by the hash
storeObject(objs, type, content) ==
    LET header == <<type, ContentLength(type, content)>>
        fullContent == <<header[1], header[2], content>>
        h == hash(fullContent)
    IN [hash |-> h, objects |-> storeObject_Put(objs, h, fullContent)]

\* getObject: throws when the file is missing, else splits header and content
getObject(objs, h) ==
    IF h \notin DOMAIN objs THEN Err("NotFound")
    ELSE Ok([type |-> objs[h][1], size |-> objs[h][2], content |-> objs[h][3]])

createBlob(objs, content) == storeObject(objs, "blob", content)

\* String.prototype.localeCompare on the paths of the model: the position of
\* a path in the locale's order. Letters order before their case does, and
\* canonically equivalent strings ("U00E9.txt" stands for the file name with
\* the precomposed letter U+00E9, "e+U0301.txt" for the one with e followed by
\* the combining accent U+0301) compare equal.
LocaleRank(p) ==
    CASE p = "a.txt" -> 1
      [] p = "B.txt" -> 2
      [] p = "b.txt" -> 3
      [] p = "U00E9.txt" -> 4
      [] p = "e+U0301.txt" -> 4
      [] OTHER -> 5
localeCompare(a, b) == LocaleRank(a) - LocaleRank(b)

RECURSIVE SortInsert(_, _)
\* insertion of e behind every entry that does not compare greater (stable)
SortInsert(sorted, e) ==
    IF Len(sorted) = 0 THEN <<e>>
    ELSE IF localeCompare(sorted[1].path, e.path) > 0 THEN <<e>> \o sorted
    ELSE <<sorted[1]>> \o SortInsert(Tail(sorted), e)

RECURSIVE SortByPath(_)
\* entries.sort((a, b) => a.path.localeCompare(b.path))
SortByPath(entries) ==
    IF Len(entries) = 0 THEN <<>>
    ELSE SortInsert(SortByPath(SubSeq(entries, 1, Len(entries) - 1)),
                    entries[Len(entries)])

\* createTree: sorts, writes "100644 <path>\0<raw hash>" per entry, stores a tree
createTree(objs, entries) ==
    LET sorted == SortByPath(entries)
        treeContent == [i \in 1..Len(sorted) |-> <<"100644", sorted[i].path, sorted[i].hash>>]
    IN storeObject(objs, "tree", treeContent)

\* createCommit writing its parent line twice
createCommit_TwoParentLines(objs, treeHash, parentHash, message, author, clock) ==
    storeObject(objs, "commit",
                << <<"tree", treeHash>> >>
                \o (IF parentHash # None
                    THEN << <<"parent", parentHash[1]>>, <<"parent", parentHash[1]>> >>
                    ELSE <<>>)
                \o << <<"author", author, clock \div 1000, "+0000">>,
                      <<"committer", author, clock \div 1000, "+0000">>,
                      <<>> >> \o message \o << <<>> >>)

\* createCommit without its parent line
createCommit_NoParentLine(objs, treeHash, parentHash, message, author, clock) ==
    storeObject(objs, "commit",
                << <<"tree", treeHash>>,
                   <<"author", author, clock \div 1000, "+0000">>,
                   <<"committer", author, clock \div 1000, "+0000">>,
                   <<>> >> \o message \o << <<>> >>)

\* createCommit: the commit text, line by line, stored as a commit
createCommit(objs, treeHash, parentHash, message, author, clock) ==
    LET timestamp == clock \div 1000
        timezone == "+0000"
        commitContent ==
            << <<"tree", treeHash>> >>
            \o (IF parentHash # None THEN << <<"parent", parentHash[1]>> >> ELSE <<>>)
            \o << <<"author", author, timestamp, timezone>>,
                  <<"committer", author, timestamp, timezone>>,
                  <<>> >>
            \o message
            \o << <<>> >>
    IN storeObject(objs, "commit", commitContent)

RECURSIVE FirstBlank(_, _)
\* index of the first empty line at or after i, or 0 when there is none
FirstBlank(lines, i) ==
    IF i > Len(lines) THEN 0
    ELSE IF Len(lines[i]) = 0 THEN i
    ELSE FirstBlank(lines, i + 1)

RECURSIVE LastField(_, _, _)
\* the last line before index n that starts with the word key, or None
LastField(lines, n, key) ==
    IF n <= 1 THEN None
    ELSE IF Len(lines[n - 1]) >= 2 /\ lines[n - 1][1] = key THEN Some(lines[n - 1])
    ELSE LastField(lines, n - 1, key)

\* a line of white space only: no word, or empty words between its spaces
Blank(line) == \A i \in 1..Len(line) : line[i] = ""

RECURSIVE StripLeft(_)
\* the line without the spaces it starts with
StripLeft(line) ==
    IF Len(line) > 0 /\ line[1] = "" THEN StripLeft(Tail(line)) ELSE line

RECURSIVE StripRight(_)
\* the line without the spaces it ends with
StripRight(line) ==
    IF Len(line) > 0 /\ line[Len(line)] = ""
    THEN StripRight(SubSeq(line, 1, Len(line) - 1))
    ELSE line

RECURSIVE TrimLeft(_)
TrimLeft(lines) ==
    IF Len(lines) = 0 THEN lines
    ELSE IF Blank(lines[1]) THEN TrimLeft(Tail(lines))
    ELSE <<StripLeft(lines[1])>> \o Tail(lines)

RECURSIVE TrimRight(_)
TrimRight(lines) ==
    IF Len(lines) = 0 THEN lines
    ELSE IF Blank(lines[Len(lines)]) THEN TrimRight(SubSeq(lines, 1, Len(lines) - 1))
    ELSE SubSeq(lines, 1, Len(lines) - 1) \o <<StripRight(lines[Len(lines)])>>

\* String.prototype.trim on text given by its lines: the white space at both
\* ends goes, line breaks included; the empty text is one empty line
Trim(lines) ==
    LET t == TrimRight(TrimLeft(lines)) IN IF Len(t) = 0 THEN << <<>> >> ELSE t

\* getCommit: header fields up to the first empty line, the message after it
getCommit(objs, h) ==
    LET obj == getObject(objs, h) IN
    IF ~obj.ok THEN obj
    ELSE IF obj.val.type # "commit" THEN Err("NotACommit")
    ELSE LET lines == obj.val.content
             blank == FirstBlank(lines, 1)
             stop == IF blank = 0 THEN Len(lines) + 1 ELSE blank
             messageStart == IF blank = 0 THEN 1 ELSE blank + 1
             treeLine == LastField(lines, stop, "tree")
             parentLine == LastField(lines, stop, "parent")
             authorLine == LastField(lines, stop, "author")
             committerLine == LastField(lines, stop, "committer")
             authorMatch == authorLine # None /\ Len(authorLine[1]) >= 4
             committerMatch == committerLine # None /\ Len(committerLine[1]) >= 4
         IN Ok([tree |-> IF treeLine = None THEN None ELSE Some(treeLine[1][2]),
                parent |-> IF parentLine = None THEN None ELSE Some(parentLine[1][2]),
                author |-> IF authorMatch THEN Some(authorLine[1][2]) ELSE None,
                committer |-> IF committerMatch THEN Some(committerLine[1][2]) ELSE None,
                message |-> Trim(SubSeq(lines, messageStart, Len(lines))),
                date |-> IF authorMatch THEN Some(authorLine[1][3] * 1000) ELSE None])

\* the path getTree reads for a path createTree wrote: the header is decoded
\* as UTF-8 from bytes written as latin1 (U+00E9 becomes U+FFFD, U+0301 is
\* cut to the byte 01) and split(' ') keeps the text before the second space
PathReadBack(p) ==
    CASE p = "my file.txt" -> "my"
      [] p = "U00E9.txt" -> "UFFFD.txt"
      [] p = "e+U0301.txt" -> "e+U0001.txt"
      [] OTHER -> p

\* getTree: mode, path and hex hash of every entry of a stored tree
getTree(objs, h) ==
    LET obj == getObject(objs, h) IN
    IF ~obj.ok THEN obj
    ELSE IF obj.val.type # "tree" THEN Err("NotATree")
    ELSE LET content == obj.val.content IN
         Ok([i \in 1..Len(content) |->
                [mode |-> content[i][1], path |-> PathReadBack(content[i][2]),
                 hash |-> content[i][3]]])

\* ------------------------------------------------------------ Reference
HeadPrefix == "ref: refs/heads/"
DefaultBranch == "master"
Author == "MyGit User <user@mygit.com>"

\* setHead: the content written to HEAD
setHead(branchName) == <<HeadPrefix, branchName>>

\* getCurrentBranch: the default without a HEAD file, the name of a symbolic
\* ref, "HEAD" for any other content
getCurrentBranch(hd) ==
    IF Len(hd) = 0 THEN DefaultBranch
    ELSE IF hd[1] = HeadPrefix THEN hd[2]
    ELSE "HEAD"

\* fs.pathExists on refs/heads/<name>
branchExists(rf, branchName) == branchName \in DOMAIN rf

WriteRef(rf, branchName, content) ==
    [b \in DOMAIN rf \cup {branchName} |-> IF b = branchName THEN content ELSE rf[b]]

\* Reference.createBranch overwriting a file it finds
Reference_createBranch_Overwrite(rf, branchName, commitHash) ==
    Ok([b \in DOMAIN rf \cup {branchName} |->
          IF b = branchName THEN (IF Len(commitHash) > 0 THEN commitHash ELSE <<>>) ELSE rf[b]])

\* Reference.createBranch always writing the empty pointer
Reference_createBranch_Empty(rf, branchName, commitHash) ==
    IF branchName \in DOMAIN rf THEN Err("BranchExists")
    ELSE Ok([b \in DOMAIN rf \cup {branchName} |-> IF b = branchName THEN <<>> ELSE rf[b]])

\* Reference.createBranch: throws when the file exists, else writes the hash,
\* or the empty string for a branch without a commit
Reference_createBranch(rf, branchName, commitHash) ==
    IF branchExists(rf, branchName) THEN Err("BranchExists")
    ELSE Ok(WriteRef(rf, branchName, IF Len(commitHash) > 0 THEN commitHash ELSE <<>>))

\* updateBranch writing the hash to every branch file
updateBranch_EveryBranch(rf, branchName, commitHash) ==
    IF ~branchExists(rf, branchName) THEN Err("NoSuchBranch")
    ELSE Ok([b \in DOMAIN rf |-> Some(commitHash)])

\* updateBranch that checks the file and writes nothing
updateBranch_NoWrite(rf, branchName, commitHash) ==
    IF ~branchExists(rf, branchName) THEN Err("NoSuchBranch")
    ELSE Ok(rf)

\* updateBranch: throws when the file is missing, else overwrites it
updateBranch(rf, branchName, commitHash) ==
    IF ~branchExists(rf, branchName) THEN Err("NoSuchBranch")
    ELSE Ok(WriteRef(rf, branchName, Some(commitHash)))

\* getBranchCommit: throws when the file is missing; null for an empty file
getBranchCommit(rf, branchName) ==
    IF ~branchExists(rf, branchName) THEN Err("NoSuchBranch")
    ELSE Ok(IF Len(rf[branchName]) = 0 THEN None ELSE rf[branchName])

\* the branch names with a '/': refs/heads/feature/user-auth is a file in the
\* directory refs/heads/feature. No name of the model is that of such a directory.
NestedNames == {"feature/user-auth"}
IsNested(branchName) == branchName \in NestedNames

\* Reference.listBranches: the entries of refs/heads that are regular files;
\* the directory that holds a nested branch is filtered out
Reference_listBranches(rf) == {b \in DOMAIN rf : ~IsNested(b)}

\* Reference.deleteBranch protecting the default branch instead of the current one
deleteBranch_DefaultProtected(hd, rf, branchName) ==
    IF branchName = DefaultBranch THEN Err("CannotDeleteCurrent")
    ELSE IF ~branchExists(rf, branchName) THEN Err("NoSuchBranch")
    ELSE Ok([b \in DOMAIN rf \ {branchName} |-> rf[b]])

\* Reference.deleteBranch without its look at the current branch
deleteBranch_NoCurrentCheck(hd, rf, branchName) ==
    IF ~branchExists(rf, branchName) THEN Err("NoSuchBranch")
    ELSE Ok([b \in DOMAIN rf \ {branchName} |-> rf[b]])

\* deleteBranch: refuses the current branch, throws on a missing one, unlinks
deleteBranch(hd, rf, branchName) ==
    IF branchName = getCurrentBranch(hd) THEN Err("CannotDeleteCurrent")
    ELSE IF ~branchExists(rf, branchName) THEN Err("NoSuchBranch")
    ELSE Ok([b \in DOMAIN rf \ {branchName} |-> rf[b]])

\* ------------------------------------------------------------ Index
\* Index.load: the parsed entries, or [] without an index file
Index_load(idx) == IF idx.exists THEN idx.entries ELSE <<>>

\* Index.save: the file holds the serialized entries
Index_save(entries) == [exists |-> TRUE, entries |-> entries]

getStagedFiles(idx) == Index_load(idx)

\* Index.add on the loaded entries pushing without dropping the path's entry
Index_addEntry_NoFilter(entries, filePath, blobHash, clock) ==
    SortByPath(Append(entries, [path |-> filePath, hash |-> blobHash, mode |-> "100644",
                                size |-> 0, timestamp |-> clock]))

\* Index.add on the loaded entries: drop the path's entry, push, sort
Index_addEntry(entries, filePath, blobHash, clock) ==
    LET Other(e) == e.path # filePath
        filteredEntries == SelectSeq(entries, Other)
        newEntry == [path |-> filePath, hash |-> blobHash, mode |-> "100644",
                     size |-> 0, timestamp |-> clock]
    IN SortByPath(Append(filteredEntries, newEntry))

\* Index.add: load, replace the entry, save
Index_add(idx, filePath, blobHash, clock) ==
    Index_save(Index_addEntry(Index_load(idx), filePath, blobHash, clock))

\* Index.remove: throws when no entry has the path, else saves the others
Index_remove(idx, filePath) ==
    LET Other(e) == e.path # filePath
        entries == Index_load(idx)
        filteredEntries == SelectSeq(entries, Other)
    IN IF Len(filteredEntries) = Len(entries) THEN Err("NotStaged")
       ELSE Ok(Index_save(filteredEntries))

\* Index.clear that leaves the index file as it is
Index_clear_Keep(idx) == idx

\* Index.clear: save([]), whatever the index file held
Index_clear(idx) == Index_save(<<>>)

\* ------------------------------------------------------------ MyGit
\* The locals of a running operation. Every operation is a sequence of steps,
\* one per access to the repository directory; at is the step it is about to
\* take. A step maps the directory d = [head, refs, index, objects] and the
\* locals l to the directory and locals after it.
NoLocal ==
    [op |-> "none", path |-> "", file |-> None, message |-> <<>>, io |-> "none",
     name |-> "", count |-> 0, staged |-> <<>>, tree |-> None, branch |-> "",
     parent |-> None, commit |-> None, blob |-> None,
     status |-> "none", value |-> None]

Goto(d, l, at) == [d |-> d, l |-> l, pc |-> at]
\* the operation returns value
Return(d, l, value) == [d |-> d, l |-> [l EXCEPT !.status = "ok", !.value = value], pc |-> "done"]
\* the operation throws
Throw(d, l, kind) == [d |-> d, l |-> [l EXCEPT !.status = kind], pc |-> "done"]

\* MyGit.init that sets HEAD and creates no branch
initStep_NoBranch(d, l, at, clock) ==
    CASE at = "i_head" ->
           Goto([d EXCEPT !.head = setHead(DefaultBranch)], l, "i_branch")
      [] OTHER -> Return(d, l, None)

\* MyGit.init: HEAD is set to master, then the master branch is created
initStep(d, l, at, clock) ==
    CASE at = "i_head" ->
           Goto([d EXCEPT !.head = setHead(DefaultBranch)], l, "i_branch")
      [] OTHER ->
           LET r == Reference_createBranch(d.refs, DefaultBranch, None) IN
           IF r.ok THEN Return([d EXCEPT !.refs = r.val], l, None)
           ELSE Throw(d, l, r.err)

\* MyGit.add recording the index entry first and storing the blob after it
addStep_EntryFirst(d, l, at, clock) ==
    CASE at = "a_blob" ->
           IF l.file = None THEN Throw(d, l, "FileNotFound")
           ELSE Goto(d, [l EXCEPT !.blob = Some(createBlob(d.objects, l.file[1]).hash)],
                     "a_load")
      [] at = "a_load" ->
           Goto(d, [l EXCEPT !.staged = Index_load(d.index)], "a_save")
      [] at = "a_save" ->
           Goto([d EXCEPT !.index =
                     Index_save(Index_addEntry(l.staged, l.path, l.blob[1], clock))],
                l, "a_store")
      [] OTHER ->
           Return([d EXCEPT !.objects = createBlob(d.objects, l.file[1]).objects], l, None)

\* MyGit.add writing the index file before it looks for the working-tree file
addStep_TouchIndex(d, l, at, clock) ==
    CASE at = "a_blob" ->
           IF l.file = None
           THEN Throw([d EXCEPT !.index = Index_save(Index_load(d.index))], l, "FileNotFound")
           ELSE LET b == createBlob(d.objects, l.file[1]) IN
                Goto([d EXCEPT !.objects = b.objects],
                     [l EXCEPT !.blob = Some(b.hash)], "a_load")
      [] at = "a_load" ->
           Goto(d, [l EXCEPT !.staged = Index_load(d.index)], "a_save")
      [] OTHER ->
           Return([d EXCEPT !.index =
                       Index_save(Index_addEntry(l.staged, l.path, l.blob[1], clock))],
                  l, None)

\* MyGit.add: the file is read and stored as a blob, then Index.add loads the
\* index, replaces the entry and saves
addStep(d, l, at, clock) ==
    CASE at = "a_blob" ->
           IF l.file = None THEN Throw(d, l, "FileNotFound")
           ELSE LET b == createBlob(d.objects, l.file[1]) IN
                Goto([d EXCEPT !.objects = b.objects],
                     [l EXCEPT !.blob = Some(b.hash)], "a_load")
      [] at = "a_load" ->
           Goto(d, [l EXCEPT !.staged = Index_load(d.index)], "a_save")
      [] OTHER ->
           Return([d EXCEPT !.index =
                       Index_save(Index_addEntry(l.staged, l.path, l.blob[1], clock))],
                  l, None)

\* the empty-index check of commit, never true
nothingStaged_Never(stagedFiles) == FALSE

\* stagedFiles.length === 0
nothingStaged(stagedFiles) == Len(stagedFiles) = 0

\* the branch update of commit with the index cleared before it, not after
commitUpdateBranch_ClearFirst(d, l) ==
    LET u == updateBranch(d.refs, l.branch, l.commit[1])
        cleared == [d EXCEPT !.index = Index_save(<<>>)]
    IN IF l.io = "update" THEN Throw(cleared, l, "IOError")
       ELSE IF ~u.ok THEN Throw(cleared, l, u.err)
       ELSE Goto([cleared EXCEPT !.refs = u.val], l, "c_clear")

\* commit, the branch update: the branch read before is set to the new commit
commitUpdateBranch(d, l) ==
    LET u == updateBranch(d.refs, l.branch, l.commit[1]) IN
    IF l.io = "update" THEN Throw(d, l, "IOError")
    ELSE IF ~u.ok THEN Throw(d, l, u.err)
    ELSE Goto([d EXCEPT !.refs = u.val], l, "c_clear")

\* commit, the last step: the index is cleared and the commit hash returned
commitClear(d, l) == Return([d EXCEPT !.index = Index_clear(d.index)], l, l.commit)

\* MyGit.commit: staged files, tree, current branch, its tip, commit object,
\* branch update, index clear
commitStep(d, l, at, clock) ==
    CASE at = "c_load" ->
           LET stagedFiles == getStagedFiles(d.index) IN
           IF nothingStaged(stagedFiles) THEN Throw(d, l, "NothingStaged")
           ELSE Goto(d, [l EXCEPT !.staged = stagedFiles], "c_tree")
      [] at = "c_tree" ->
           IF l.io = "tree" THEN Throw(d, l, "IOError")
           ELSE LET t == createTree(d.objects, l.staged) IN
                Goto([d EXCEPT !.objects = t.objects],
                     [l EXCEPT !.tree = Some(t.hash)], "c_head")
      [] at = "c_head" ->
           Goto(d, [l EXCEPT !.branch = getCurrentBranch(d.head)], "c_tip")
      [] at = "c_tip" ->
           LET parentCommit == getBranchCommit(d.refs, l.branch) IN
           IF l.io = "tip" THEN Throw(d, l, "IOError")
           ELSE IF ~parentCommit.ok THEN Throw(d, l, parentCommit.err)
           ELSE Goto(d, [l EXCEPT !.parent = parentCommit.val], "c_commit")
      [] at = "c_commit" ->
           IF l.io = "commit" THEN Throw(d, l, "IOError")
           ELSE LET c == createCommit(d.objects, l.tree[1], l.parent, l.message,
                                      Author, clock) IN
                Goto([d EXCEPT !.objects = c.objects],
                     [l EXCEPT !.commit = Some(c.hash)], "c_update")
      [] at = "c_update" -> commitUpdateBranch(d, l)
      [] OTHER -> commitClear(d, l)

\* the loop condition of log with <= for <
logContinue_OffByOne(i, count, currentCommit) == i <= count /\ Len(currentCommit) > 0

\* log collecting with unshift for push
logPush_Unshift(commits, currentCommit, commitData) ==
    <<[hash |-> currentCommit,
       tree |-> commitData.tree,
       parent |-> commitData.parent,
       author |-> commitData.author,
       committer |-> commitData.committer,
       message |-> commitData.message,
       date |-> commitData.date]>> \o commits

\* the loop condition of log: i < count && currentCommit
logContinue(i, count, currentCommit) == i < count /\ Len(currentCommit) > 0

\* commits.push({hash: currentCommit, ...commitData})
logPush(commits, currentCommit, commitData) ==
    Append(commits,
           [hash |-> currentCommit,
            tree |-> commitData.tree,
            parent |-> commitData.parent,
            author |-> commitData.author,
            committer |-> commitData.committer,
            message |-> commitData.message,
            date |-> commitData.date])

RECURSIVE logLoop(_, _, _, _, _)
\* for (i = 0; i < count && currentCommit; i++): read, push, follow parent
logLoop(objs, currentCommit, i, count, commits) ==
    IF logContinue(i, count, currentCommit)
    THEN LET commitData == getCommit(objs, currentCommit[1]) IN
         IF ~commitData.ok THEN commitData
         ELSE logLoop(objs, commitData.val.parent, i + 1, count,
                      logPush(commits, currentCommit[1], commitData.val))
    ELSE Ok(commits)

\* MyGit.log
logStep(d, l, at, clock) ==
    LET currentBranch == getCurrentBranch(d.head)
        headCommit == getBranchCommit(d.refs, currentBranch)
    IN IF ~headCommit.ok THEN Throw(d, l, headCommit.err)
       ELSE IF Len(headCommit.val) = 0 THEN Return(d, l, <<>>)
       ELSE LET r == logLoop(d.objects, headCommit.val, 0, l.count, <<>>) IN
            IF r.ok THEN Return(d, l, r.val) ELSE Throw(d, l, r.err)

\* MyGit.createBranch that also switches HEAD to the branch it created
createBranchStep_Switch(d, l, at, clock) ==
    LET currentBranch == getCurrentBranch(d.head)
        currentCommit == getBranchCommit(d.refs, currentBranch)
    IN IF ~currentCommit.ok THEN Throw(d, l, currentCommit.err)
       ELSE LET r == Reference_createBranch(d.refs, l.name, currentCommit.val) IN
            IF r.ok THEN Return([d EXCEPT !.refs = r.val, !.head = setHead(l.name)], l, None)
            ELSE Throw(d, l, r.err)

\* MyGit.createBranch: the new branch gets the current branch's commit
createBranchStep(d, l, at, clock) ==
    LET currentBranch == getCurrentBranch(d.head)
        currentCommit == getBranchCommit(d.refs, currentBranch)
    IN IF ~currentCommit.ok THEN Throw(d, l, currentCommit.err)
       ELSE LET r == Reference_createBranch(d.refs, l.name, currentCommit.val) IN
            IF r.ok THEN Return([d EXCEPT !.refs = r.val], l, None)
            ELSE Throw(d, l, r.err)

\* MyGit.checkout setting HEAD without a look at the branches
checkoutStep_NoCheck(d, l, at, clock) ==
    Return([d EXCEPT !.head = setHead(l.name)], l, None)

\* MyGit.checkout that also empties the staging index
checkoutStep_ClearIndex(d, l, at, clock) ==
    LET branches == Reference_listBranches(d.refs) IN
    IF l.name \notin branches THEN Throw(d, l, "NoSuchBranch")
    ELSE Return([d EXCEPT !.head = setHead(l.name), !.index = Index_clear(d.index)], l, None)

\* MyGit.checkout: HEAD is set when the name is among the listed branches
checkoutStep(d, l, at, clock) ==
    LET branches == Reference_listBranches(d.refs) IN
    IF l.name \notin branches THEN Throw(d, l, "NoSuchBranch")
    ELSE Return([d EXCEPT !.head = setHead(l.name)], l, None)

\* Reference.deleteBranch, as the command line calls it
deleteBranchStep(d, l, at, clock) ==
    LET r == deleteBranch(d.head, d.refs, l.name) IN
    IF r.ok THEN Return([d EXCEPT !.refs = r.val], l, None)
    ELSE Throw(d, l, r.err)

\* MyGit.status: the current branch and the staged paths (the working tree
\* is an input of the operations, so the untracked files are left out)
statusStep(d, l, at, clock) ==
    LET currentBranch == getCurrentBranch(d.head)
        stagedFiles == getStagedFiles(d.index)
    IN Return(d, l, <<currentBranch, [i \in 1..Len(stagedFiles) |-> stagedFiles[i].path]>>)

\* MyGit.listBranches flagging the default branch instead of the current one
listBranches_DefaultCurrent(hd, rf) ==
    {[name |-> b, current |-> (b = DefaultBranch)] : b \in Reference_listBranches(rf)}

\* MyGit.listBranches: every listed branch, flagged when it is the current one
listBranches(hd, rf) ==
    LET branches == Reference_listBranches(rf)
        currentBranch == getCurrentBranch(hd)
    IN {[name |-> b, current |-> (b = currentBranch)] : b \in branches}

listBranchesStep(d, l, at, clock) == Return(d, l, listBranches(d.head, d.refs))

\* Index.add, Index.remove and Index.clear called on the index of the handle
indexStep(d, l, at, clock) ==
    CASE l.op = "indexAdd" ->
           Return([d EXCEPT !.index = Index_add(d.index, l.path, l.blob[1], clock)], l, None)
      [] l.op = "indexRemove" ->
           LET r == Index_remove(d.index, l.path) IN
           IF r.ok THEN Return([d EXCEPT !.index = r.val], l, None)
           ELSE Throw(d, l, r.err)
      [] OTHER -> Return([d EXCEPT !.index = Index_clear(d.index)], l, None)

\* one step of the running operation
Step(d, l, at, clock) ==
    CASE l.op = "init" -> initStep(d, l, at, clock)
      [] l.op = "add" -> addStep(d, l, at, clock)
      [] l.op = "commit" -> commitStep(d, l, at, clock)
      [] l.op = "log" -> logStep(d, l, at, clock)
      [] l.op = "createBranch" -> createBranchStep(d, l, at, clock)
      [] l.op = "checkout" -> checkoutStep(d, l, at, clock)
      [] l.op = "deleteBranch" -> deleteBranchStep(d, l, at, clock)
      [] l.op = "status" -> statusStep(d, l, at, clock)
      [] l.op = "listBranches" -> listBranchesStep(d, l, at, clock)
      [] OTHER -> indexStep(d, l, at, clock)

\* the first step of every operation
Entry(op) ==
    CASE op = "init" -> "i_head"
      [] op = "add" -> "a_blob"
      [] op = "commit" -> "c_load"
      [] OTHER -> "run"

RECURSIVE Run(_, _, _, _)
\* an operation run from step at to its end with no other operation in between
Run(d, l, at, clock) ==
    IF at = "done" THEN [d |-> d, l |-> l]
    ELSE CHOOSE r \in {Run(s.d, s.l, s.pc, clock) : s \in {Step(d, l, at, clock)}} : TRUE

\* ------------------------------------------------------------ state machine
Disk == [head |-> head, refs |-> refs, index |-> index, objects |-> objects]

\* the directory before any operation has touched it
NoDisk == [head |-> <<>>, refs |-> <<>>, index |-> [exists |-> FALSE, entries |-> <<>>],
           objects |-> <<>>]

NoResult ==
    [op |-> "none", name |-> "", file |-> None, blob |-> None, count |-> 0,
     status |-> "none", value |-> None]

\* what a finished operation leaves for its caller
Result(l) ==
    [op |-> l.op, name |-> IF l.name = "" THEN l.path ELSE l.name, file |-> l.file,
     blob |-> l.blob,
     count |-> l.count,
     status |-> l.status, value |-> l.value]

\* a fresh working directory: no .mygit, every handle constructed and idle
Init ==
    /\ head = NoDisk.head
    /\ refs = NoDisk.refs
    /\ index = NoDisk.index
    /\ objects = NoDisk.objects
    /\ now = 0
    /\ pc = [p \in Handles |-> "idle"]
    /\ local = [p \in Handles |-> NoLocal]
    /\ ret = [p \in Handles |-> NoResult]
    /\ prev = NoDisk
    /\ ov = [p \in Handles |-> {}]

CommitObjects(objs) == {h \in DOMAIN objs : objs[h][1] = "commit"}

initArgs == [NoLocal EXCEPT !.op = "init"]
addArgs(filePath, file) == [NoLocal EXCEPT !.op = "add", !.path = filePath, !.file = file]
commitArgs(message, io) == [NoLocal EXCEPT !.op = "commit", !.message = message, !.io = io]
logArgs(count) == [NoLocal EXCEPT !.op = "log", !.count = count]
branchArgs(op, branchName) == [NoLocal EXCEPT !.op = op, !.name = branchName]

\* the working-tree file an add finds at a path: missing, or with its content
WorkingFiles(p) == {None, Some(FileContent(p))}

\* the wall clock advances between two operations
Tick ==
    /\ \A p \in Handles : pc[p] = "idle"
    /\ \E t \in Ticks : now + t <= MaxNow /\ now' = now + t
    /\ UNCHANGED <<head, refs, index, objects, pc, local, ret, prev, ov>>

\* handle p runs the operation with locals l0 from its first step to its end;
\* prev keeps the directory the operation started from
Call(p, l0) ==
    /\ \A q \in Handles : pc[q] = "idle"
    /\ \E r \in {Run(Disk, l0, Entry(l0.op), now)} :
       /\ head' = r.d.head
       /\ refs' = r.d.refs
       /\ index' = r.d.index
       /\ objects' = r.d.objects
       /\ ret' = [ret EXCEPT ![p] = Result(r.l)]
    /\ pc' = [pc EXCEPT ![p] = "done"]
    /\ prev' = Disk
    /\ UNCHANGED <<now, local, ov>>

\* the caller of handle p takes the result; the handle is ready for the next call
Resume(p) ==
    /\ pc[p] = "done"
    /\ pc' = [pc EXCEPT ![p] = "idle"]
    /\ ret' = [ret EXCEPT ![p] = NoResult]
    /\ prev' = NoDisk
    /\ UNCHANGED <<head, refs, index, objects, now, local, ov>>

MyGit_init(p) == Call(p, initArgs)
MyGit_add(p, filePath, file) == Call(p, addArgs(filePath, file))
MyGit_commit(p, message, io) ==
    /\ Cardinality(CommitObjects(objects)) < MaxCommits
    /\ Call(p, commitArgs(message, io))
MyGit_log(p, count) == Call(p, logArgs(count))
MyGit_createBranch(p, branchName) == Call(p, branchArgs("createBranch", branchName))
MyGit_checkout(p, branchName) == Call(p, branchArgs("checkout", branchName))
MyGit_deleteBranch(p, branchName) == Call(p, branchArgs("deleteBranch", branchName))
MyGit_status(p) == Call(p, branchArgs("status", ""))
MyGit_listBranches(p) == Call(p, branchArgs("listBranches", ""))

\* one operation at a time, each run to completion
Next ==
    \/ Tick
    \/ Resume(Seq1)
    \/ MyGit_init(Seq1)
    \/ \E f \in Paths : \E c \in WorkingFiles(f) : MyGit_add(Seq1, f, c)
    \/ \E m \in Messages, io \in IOFaults : MyGit_commit(Seq1, m, io)
    \/ \E n \in 0..MaxCount : MyGit_log(Seq1, n)
    \/ \E b \in BranchNames : MyGit_createBranch(Seq1, b)
    \/ \E b \in BranchNames : MyGit_checkout(Seq1, b)

Spec == Init /\ [][Next]_vars

\* ------------------------------------------------------------ interleaved handles
\* Two handles over the same root, each operation advancing one directory
\* access at a time; ov[p] collects the handles that had an operation under
\* way at some moment of p's current (or last) operation.
Running(p) == pc[p] \notin {"idle", "done"}

\* handle p starts the operation with locals l0
Begin(p, l0) ==
    /\ pc[p] = "idle"
    /\ pc' = [pc EXCEPT ![p] = Entry(l0.op)]
    /\ local' = [local EXCEPT ![p] = l0]
    /\ ov' = [q \in Handles |->
                IF q = p THEN {r \in Handles \ {p} : Running(r)}
                ELSE IF Running(q) THEN ov[q] \cup {p}
                ELSE ov[q]]
    /\ UNCHANGED <<head, refs, index, objects, now, ret, prev>>

\* handle p takes the next step of its operation
Advance(p) ==
    /\ Running(p)
    /\ \E s \in {Step(Disk, local[p], pc[p], now)} :
       /\ head' = s.d.head
       /\ refs' = s.d.refs
       /\ index' = s.d.index
       /\ objects' = s.d.objects
       /\ pc' = [pc EXCEPT ![p] = s.pc]
       /\ local' = [local EXCEPT ![p] = IF s.pc = "done" THEN NoLocal ELSE s.l]
       /\ ret' = [ret EXCEPT ![p] = IF s.pc = "done" THEN Result(s.l) ELSE ret[p]]
    /\ UNCHANGED <<now, prev, ov>>

CommitsUnderWay == {p \in Handles : local[p].op = "commit"}

BeginInit(p) == Begin(p, initArgs)
BeginAdd(p, filePath, file) == Begin(p, addArgs(filePath, file))
BeginCommit(p, message) ==
    /\ Cardinality(CommitObjects(objects)) + Cardinality(CommitsUnderWay) < MaxCommits
    /\ Begin(p, commitArgs(message, "none"))

NextConc ==
    \/ \E p \in Handles : Resume(p)
    \/ \E p \in Handles : Advance(p)
    \/ \E p \in Handles : BeginInit(p)
    \/ \E p \in Handles, f \in Paths : BeginAdd(p, f, Some(FileContent(f)))
    \/ \E p \in Handles, m \in Messages : BeginCommit(p, m)

SpecConc == Init /\ [][NextConc]_vars

\* ------------------------------------------------------------ the staging index
\* The operations of the Index class called one at a time on a repository
\* that init has just created, with commit as the engine operation that
\* clears the index.
IndexPaths == {"a.txt", "B.txt"}
\* the fingerprints handed to Index.add: those of the blobs of the two contents
Fingerprints == {createBlob(<<>>, FileContent(f)).hash : f \in Paths}

indexArgs(op, filePath, blobHash) ==
    [NoLocal EXCEPT !.op = op, !.path = filePath, !.blob = blobHash]

Index_addCall(p, filePath, blobHash) == Call(p, indexArgs("indexAdd", filePath, Some(blobHash)))
Index_removeCall(p, filePath) == Call(p, indexArgs("indexRemove", filePath, None))
Index_clearCall(p) == Call(p, indexArgs("indexClear", "", None))

\* the directory as init leaves it, every handle idle
InitRepo ==
    /\ head = Run(NoDisk, initArgs, Entry("init"), 0).d.head
    /\ refs = Run(NoDisk, initArgs, Entry("init"), 0).d.refs
    /\ index = NoDisk.index
    /\ objects = NoDisk.objects
    /\ now = 0
    /\ pc = [p \in Handles |-> "idle"]
    /\ local = [p \in Handles |-> NoLocal]
    /\ ret = [p \in Handles |-> NoResult]
    /\ prev = NoDisk
    /\ ov = [p \in Handles |-> {}]

NextIndex ==
    \/ Resume(Seq1)
    \/ \E f \in IndexPaths, h \in Fingerprints : Index_addCall(Seq1, f, h)
    \/ \E f \in IndexPaths : Index_removeCall(Seq1, f)
    \/ Index_clearCall(Seq1)
    \/ \E m \in Messages : MyGit_commit(Seq1, m, "none")

SpecIndex == InitRepo /\ [][NextIndex]_vars

\* ------------------------------------------------------------ branches
\* The branch operations, with a nested name among the names, next to the
\* adds and commits that give the branches their tips.
BranchNames3 == BranchNames \cup NestedNames
\* the path staged in the specification of the branches
BranchPaths == {"a.txt"}

NextBranch ==
    \/ Resume(Seq1)
    \/ MyGit_init(Seq1)
    \/ \E f \in BranchPaths : MyGit_add(Seq1, f, Some(FileContent(f)))
    \/ \E m \in Messages : MyGit_commit(Seq1, m, "none")
    \/ \E b \in BranchNames3 : MyGit_createBranch(Seq1, b)
    \/ \E b \in BranchNames3 : MyGit_checkout(Seq1, b)
    \/ \E b \in BranchNames3 : MyGit_deleteBranch(Seq1, b)
    \/ MyGit_log(Seq1, MaxCount)
    \/ MyGit_status(Seq1)
    \/ MyGit_listBranches(Seq1)

SpecBranch == Init /\ [][NextBranch]_vars

\* ------------------------------------------------------------ the object store
\* storeObject and createTree as functions of their arguments: the initial
\* state holds the argument, an empty store, and the one action that applies.
Payloads == {FileContent(f) : f \in Paths} \cup {"cafU00E9"}
\* commit messages of one line: plain ASCII, and one with a two-byte character
CommitMessages ==
    {<< <<"msg">> >>, << <<"cafU00E9">> >>,
     << <<>>, <<"msg">> >>, << <<"msg">>, <<>> >>,
     << <<"", "msg">> >>, << <<"msg", "">> >>,
     << <<"msg">>, <<>>, <<"tree", "msg">> >>, << <<"parent", "msg">>, <<"msg">> >>}
\* the tree and the parent createCommit is given
CommitTrees == {createTree(<<>>, <<>>).hash}
CommitParents == {None} \cup {Some(createCommit(<<>>, t, None, << <<"msg">> >>, Author, 0).hash) : t \in CommitTrees}
TreePaths == {"a.txt", "B.txt", "U00E9.txt", "e+U0301.txt"}

\* an entry as createTree reads it: path and hash
TreeEntries == [path : TreePaths, hash : Fingerprints]

\* the lists of at most n entries, no path twice
EntryLists(n) ==
    UNION {{e \in [1..k -> TreeEntries] : \A i, j \in 1..k : e[i].path = e[j].path => i = j} :
           k \in 0..n}

\* the lists that hold the elements of e in another or the same order
Reorderings(e) ==
    {[i \in 1..Len(e) |-> e[f[i]]] :
        f \in {g \in [1..Len(e) -> 1..Len(e)] : \A i, j \in 1..Len(e) : g[i] = g[j] => i = j}}

InitObjects ==
    /\ head = NoDisk.head
    /\ refs = NoDisk.refs
    /\ index = NoDisk.index
    /\ objects = NoDisk.objects
    /\ now = 0
    /\ pc = [p \in Handles |-> "idle"]
    /\ \E l0 \in {[NoLocal EXCEPT !.op = "storeObject", !.file = Some(c)] : c \in Payloads}
                \cup {[NoLocal EXCEPT !.op = "createTree", !.staged = e] : e \in EntryLists(MaxEntries)}
                \cup {[NoLocal EXCEPT !.op = "createCommit", !.message = m,
                                      !.tree = Some(t), !.parent = q] :
                         m \in CommitMessages, t \in CommitTrees, q \in CommitParents} :
          local = [p \in Handles |-> IF p = Seq1 THEN l0 ELSE NoLocal]
    /\ ret = [p \in Handles |-> NoResult]
    /\ prev = NoDisk
    /\ ov = [p \in Handles |-> {}]

\* storeObject('blob', content) twice; prev keeps the store between the two calls
ObjectStore_storeObject(p) ==
    /\ pc[p] = "idle"
    /\ local[p].op = "storeObject"
    /\ \E first \in {storeObject(objects, "blob", local[p].file[1])} :
       \E second \in {storeObject(first.objects, "blob", local[p].file[1])} :
          /\ objects' = second.objects
          /\ prev' = [Disk EXCEPT !.objects = first.objects]
          /\ ret' = [ret EXCEPT ![p] = Result(Return(Disk, local[p],
                                                     <<first.hash, second.hash>>).l)]
    /\ pc' = [pc EXCEPT ![p] = "done"]
    /\ UNCHANGED <<head, refs, index, now, local, ov>>

\* createTree on the entries and then on the same entries in the order permuted
ObjectStore_createTree(p, permuted) ==
    /\ pc[p] = "idle"
    /\ local[p].op = "createTree"
    /\ \E first \in {createTree(objects, local[p].staged)} :
       \E second \in {createTree(first.objects, permuted)} :
          /\ objects' = second.objects
          /\ prev' = [Disk EXCEPT !.objects = first.objects]
          /\ ret' = [ret EXCEPT ![p] = Result(Return(Disk, local[p],
                                                     <<first.hash, second.hash>>).l)]
    /\ pc' = [pc EXCEPT ![p] = "done"]
    /\ UNCHANGED <<head, refs, index, now, local, ov>>

\* createCommit of the tree, parent and message drawn
ObjectStore_createCommit(p) ==
    /\ pc[p] = "idle"
    /\ local[p].op = "createCommit"
    /\ \E c \in {createCommit(objects, local[p].tree[1], local[p].parent,
                                local[p].message, Author, now)} :
          /\ objects' = c.objects
          /\ ret' = [ret EXCEPT ![p] = Result(Return(Disk, local[p], <<c.hash>>).l)]
    /\ pc' = [pc EXCEPT ![p] = "done"]
    /\ prev' = Disk
    /\ UNCHANGED <<head, refs, index, now, local, ov>>

\* getObject(h) after the store calls; ret keeps h, the outcome and the object
ObjectStore_getObject(p, h) ==
    /\ pc[p] = "done"
    /\ ret[p].op # "getObject"
    /\ \E r \in {getObject(objects, h)} :
          ret' = [ret EXCEPT ![p] =
                    [NoResult EXCEPT !.op = "getObject", !.blob = Some(h),
                                     !.status = IF r.ok THEN "ok" ELSE r.err,
                                     !.value = IF r.ok THEN Some(r.val) ELSE None]]
    /\ UNCHANGED <<head, refs, index, objects, now, pc, local, prev, ov>>

\* getCommit of the commit createCommit returned
ObjectStore_getCommit(p) ==
    /\ pc[p] = "done"
    /\ ret[p].op = "createCommit"
    /\ \E r \in {getCommit(objects, ret[p].value[1])} :
          ret' = [ret EXCEPT ![p] =
                    [NoResult EXCEPT !.op = "getCommit", !.blob = Some(ret[p].value[1]),
                                     !.status = IF r.ok THEN "ok" ELSE r.err,
                                     !.value = IF r.ok THEN Some(r.val) ELSE None]]
    /\ UNCHANGED <<head, refs, index, objects, now, pc, local, prev, ov>>

NextObjects ==
    \/ ObjectStore_storeObject(Seq1)
    \/ \E permuted \in Reorderings(local[Seq1].staged) : ObjectStore_createTree(Seq1, permuted)
    \/ ObjectStore_createCommit(Seq1)
    \/ \E h \in DOMAIN objects \cup Fingerprints : ObjectStore_getObject(Seq1, h)
    \/ ObjectStore_getCommit(Seq1)

SpecObjects == InitObjects /\ [][NextObjects]_vars

\* a HEAD file that holds a commit fingerprint instead of "ref: refs/heads/..."
DetachedHead == <<"", "fingerprint">>
\* the sentinel getCurrentBranch answers for such a HEAD is a possible branch name
DetachedNames == {DefaultBranch, "HEAD"}

\* HEAD is rewritten from outside to name a commit directly
HeadDetached ==
    /\ \A q \in Handles : pc[q] = "idle"
    /\ Len(head) > 0
    /\ head # DetachedHead
    /\ CommitObjects(objects) # {}
    /\ head' = DetachedHead
    /\ UNCHANGED <<refs, index, objects, now, pc, local, ret, prev, ov>>

NextDetached ==
    \/ Resume(Seq1)
    \/ MyGit_init(Seq1)
    \/ \E f \in Paths : MyGit_add(Seq1, f, Some(FileContent(f)))
    \/ \E m \in Messages : MyGit_commit(Seq1, m, "none")
    \/ \E b \in DetachedNames : MyGit_createBranch(Seq1, b)
    \/ \E b \in DetachedNames : MyGit_checkout(Seq1, b)
    \/ MyGit_log(Seq1, MaxCount)
    \/ HeadDetached

SpecDetached == Init /\ [][NextDetached]_vars

\* the paths staged in the specification of the committed tree, one with a space
SpacedPaths == {"a.txt", "my file.txt"}

NextTree ==
    \/ Tick
    \/ Resume(Seq1)
    \/ \E f \in SpacedPaths : MyGit_add(Seq1, f, Some(FileContent(f)))
    \/ \E m \in Messages : MyGit_commit(Seq1, m, "none")

SpecTree == InitRepo /\ [][NextTree]_vars

\* ------------------------------------------------------------ observers
\* the result the one-at-a-time caller holds
R == ret[Seq1]
\* the caller's operation op has just returned or thrown
Returned(op) == pc[Seq1] = "done" /\ R.op = op
Succeeded(op) == Returned(op) /\ R.status = "ok"

\* branch_commit(current_branch()) in directory d
Tip(d) == getBranchCommit(d.refs, getCurrentBranch(d.head))

Min(a, b) == IF a <= b THEN a ELSE b

RECURSIVE Ancestors(_, _, _)
\* the commits reached from tip (a fingerprint or none) by parent links
Ancestors(objs, tip, seen) ==
    IF Len(tip) = 0 \/ tip[1] \in seen THEN seen
    ELSE Ancestors(objs, getCommit(objs, tip[1]).val.parent, seen \cup {tip[1]})

\* path has an entry in the staging index
Staged(idx, path) == \E i \in 1..Len(Index_load(idx)) : Index_load(idx)[i].path = path

\* ------------------------------------------------------------ claims
\* C1: commit chain integrity. The parent read back from a commit that
\* commit() created is the tip the current branch had right before the
\* commit, and it is none exactly when that branch had no commit yet.
C1_CommitChainIntegrity ==
    Succeeded("commit") =>
        LET before == Tip(prev)
            c == getCommit(objects, R.value[1])
        IN /\ before.ok
           /\ c.ok
           /\ c.val.parent = before.val
           /\ (Len(c.val.parent) = 0) <=> (Len(prev.refs[getCurrentBranch(prev.head)]) = 0)

\* a commit on a branch that had a tip: its parent is that tip
C1_Witness ==
    /\ Succeeded("commit")
    /\ Len(Tip(prev).val) > 0
    /\ getCommit(objects, R.value[1]).val.parent = Tip(prev).val

\* C2: branch isolation. A successful commit leaves the pointer of every
\* branch other than the current one as it was, and the set of branches too.
C2_BranchIsolation ==
    Succeeded("commit") =>
        /\ DOMAIN refs = DOMAIN prev.refs
        /\ \A b \in DOMAIN prev.refs :
              b # getCurrentBranch(prev.head) => refs[b] = prev.refs[b]

\* a commit on feature while master keeps its own tip T
C2_Witness ==
    /\ Succeeded("commit")
    /\ getCurrentBranch(head) = "feature"
    /\ "master" \in DOMAIN refs
    /\ Len(refs["master"]) > 0
    /\ refs["master"] # refs["feature"]

\* C3: after commit returns f, the current branch points at f, f names a
\* stored commit object, and HEAD names the branch it named before.
C3_CommitAdvancesBranch ==
    Succeeded("commit") =>
        /\ Tip(Disk) = Ok(R.value)
        /\ getObject(objects, R.value[1]).ok
        /\ getObject(objects, R.value[1]).val.type = "commit"
        /\ head = prev.head

\* a second commit on a branch: the pointer moved from the old tip to f
C3_Witness ==
    /\ Succeeded("commit")
    /\ Len(Tip(prev).val) > 0
    /\ Tip(Disk).val = R.value
    /\ Tip(Disk).val # Tip(prev).val

\* C4: commit clears staging. Right after a successful commit the index
\* lists nothing, whatever was staged.
C4_CommitClearsStaging ==
    Succeeded("commit") => Len(Index_load(index)) = 0

\* a successful commit of two staged entries
C4_Witness ==
    /\ Succeeded("commit")
    /\ Len(Index_load(prev.index)) = 2
    /\ Len(Index_load(index)) = 0

\* C5: empty commit rejected. With nothing staged, commit throws
\* NothingStaged, stores no object, moves no branch and leaves HEAD.
C5_EmptyCommitRejected ==
    (Returned("commit") /\ Len(Index_load(prev.index)) = 0) =>
        /\ R.status = "NothingStaged"
        /\ objects = prev.objects
        /\ refs = prev.refs
        /\ head = prev.head

\* an empty commit refused right after a previous commit emptied the index
C5_Witness ==
    /\ Returned("commit")
    /\ R.status = "NothingStaged"
    /\ prev.index.exists
    /\ Len(Index_load(prev.index)) = 0
    /\ Tip(prev).ok
    /\ Len(Tip(prev).val) > 0

\* C6: commit partial failure. A commit that fails leaves the index as it
\* was; the index changes only when the branch points at the new commit.
C6_FailedCommitKeepsIndex ==
    Returned("commit") =>
        /\ (R.status # "ok" => index = prev.index)
        /\ (index # prev.index => /\ R.status = "ok"
                                  /\ Tip([prev EXCEPT !.refs = refs]) = Ok(R.value))

\* a commit that failed after its commit object was stored, entries still staged
C6_Witness ==
    /\ Returned("commit")
    /\ R.status = "IOError"
    /\ CommitObjects(objects) # CommitObjects(prev.objects)
    /\ Len(Index_load(index)) > 0
    /\ index = prev.index

\* the tip lookup of a commit failing by itself: entries staged before init
C6_WitnessNoBranch ==
    /\ Returned("commit")
    /\ R.status = "NoSuchBranch"
    /\ Len(Index_load(index)) > 0

\* in an initialized repository both handles hold the result of an operation
\* op that succeeded, and each of the two had the other under way at some moment
Overlapped(p, q, op) ==
    /\ p # q
    /\ Len(head) > 0
    /\ pc[p] = "done" /\ pc[q] = "done"
    /\ ret[p].op = op /\ ret[q].op = op
    /\ ret[p].status = "ok" /\ ret[q].status = "ok"
    /\ q \in ov[p] /\ p \in ov[q]

\* C7: two commits under way at once on the same branch. If both succeed,
\* one of the two commits has the other as its parent.
C7_NoStaleParents ==
    \A p, q \in Handles :
        (Overlapped(p, q, "commit") /\ ret[p].value # ret[q].value) =>
            \/ getCommit(objects, ret[p].value[1]).val.parent = ret[q].value
            \/ getCommit(objects, ret[q].value[1]).val.parent = ret[p].value

\* C8: no lost update on the staging index. After two interleaved adds of
\* different paths have both completed, the index lists both paths.
C8_NoLostUpdate ==
    \A p, q \in Handles :
        (Overlapped(p, q, "add") /\ ret[p].name # ret[q].name) =>
            /\ Staged(index, ret[p].name)
            /\ Staged(index, ret[q].name)

\* C9: history termination. In an initialized repository log(count) returns,
\* with exactly min(count, n) entries, n the number of commits reached from
\* the current branch's tip by parent links.
C9_HistoryLength ==
    (Returned("log") /\ Len(head) > 0) =>
        /\ Tip(Disk).ok
        /\ R.status = "ok"
        /\ Len(R.value) = Min(R.count, Cardinality(Ancestors(objects, Tip(Disk).val, {})))

\* log(1) on a branch with two commits returns one entry
C9_Witness ==
    /\ Returned("log")
    /\ R.count = 1
    /\ Cardinality(Ancestors(objects, Tip(Disk).val, {})) = 2
    /\ Len(R.value) = 1

\* C10: history order. The first entry of log is the current branch's tip,
\* and every later entry is the commit the entry before it names as parent.
C10_HistoryOrder ==
    Succeeded("log") =>
        /\ Len(R.value) > 0 => Some(R.value[1].hash) = Tip(Disk).val
        /\ \A i \in 2..Len(R.value) : Some(R.value[i].hash) = R.value[i - 1].parent
        /\ \A i \in 1..Len(R.value) :
              /\ getCommit(objects, R.value[i].hash).ok
              /\ getCommit(objects, R.value[i].hash).val.tree = R.value[i].tree
              /\ getCommit(objects, R.value[i].hash).val.parent = R.value[i].parent

\* the linear scenario: two commits, log returns the tip and then its parent
C10_Witness ==
    /\ Succeeded("log")
    /\ Len(R.value) = 2
    /\ Some(R.value[1].hash) = Tip(Disk).val
    /\ R.value[1].parent = Some(R.value[2].hash)
    /\ R.value[2].parent = None

RECURSIVE ReachesRoot(_, _, _)
\* following parent from tip ends at a commit without parent within fuel steps
ReachesRoot(objs, tip, fuel) ==
    IF Len(tip) = 0 THEN TRUE
    ELSE IF fuel = 0 THEN FALSE
    ELSE LET c == getCommit(objs, tip[1]) IN
         c.ok /\ ReachesRoot(objs, c.val.parent, fuel - 1)

\* the parent lines in the header of the stored commit h
ParentLines(objs, h) ==
    LET lines == objs[h][3]
        blank == FirstBlank(lines, 1)
        stop == IF blank = 0 THEN Len(lines) + 1 ELSE blank
    IN {i \in 1..(stop - 1) : lines[i][1] = "parent"}

\* C11: commit graph acyclicity. Every branch tip is a stored commit, and from
\* every stored commit the parent links reach a commit without parent in at
\* most as many steps as there are commits (so the walk passes no commit
\* twice: no commit is its own ancestor); no commit has two parent lines.
\* Stated of the directory between two operations: every content the
\* directory reaches is the content of such a state.
C11_CommitGraphAcyclic ==
    pc[Seq1] = "idle" =>
        /\ \A b \in DOMAIN refs : Len(refs[b]) > 0 => refs[b][1] \in CommitObjects(objects)
        /\ \A h \in CommitObjects(objects) :
              /\ Cardinality(ParentLines(objects, h)) <= 1
              /\ ReachesRoot(objects, Some(h), Cardinality(CommitObjects(objects)))

\* two branches whose tips differ, one tip the parent of the other, the older a root
C11_Witness ==
    /\ pc[Seq1] = "idle"
    /\ \E b, c \in DOMAIN refs :
          /\ Len(refs[b]) > 0 /\ Len(refs[c]) > 0
          /\ getCommit(objects, refs[b][1]).val.parent = refs[c]
          /\ getCommit(objects, refs[c][1]).val.parent = None
    /\ Cardinality(CommitObjects(objects)) = 2

\* the position of a path in byte-wise order: upper case before lower case,
\* ASCII before the bytes of any other letter
ByteRank(p) ==
    CASE p = "B.txt" -> 1
      [] p = "a.txt" -> 2
      [] p = "b.txt" -> 3
      [] p = "e+U0301.txt" -> 4
      [] p = "U00E9.txt" -> 5
      [] OTHER -> 6

\* no two entries of the list have the same path
UniquePaths(entries) ==
    \A i, j \in 1..Len(entries) : entries[i].path = entries[j].path => i = j

\* in every state the index lists a path once, in the order of localeCompare
Index_UniqueAndLocaleSorted ==
    LET e == Index_load(index) IN
    /\ UniquePaths(e)
    /\ \A i \in 1..(Len(e) - 1) : localeCompare(e[i].path, e[i + 1].path) < 0

\* C12: staging index invariant. After any sequence of add, remove, clear and
\* commit the index lists every path at most once and in ascending (byte-wise)
\* path order.
C12_IndexInvariant ==
    LET e == Index_load(index) IN
    /\ UniquePaths(e)
    /\ \A i \in 1..(Len(e) - 1) : ByteRank(e[i].path) < ByteRank(e[i + 1].path)

\* C13: staging round-trip. After Index.add(path, fp) the index lists exactly
\* one entry for path, with fingerprint fp, also when path was staged before
\* with another fingerprint, and the entries of the other paths are as before.
C13_StagingRoundTrip ==
    Returned("indexAdd") =>
        LET e == Index_load(index)
            old == Index_load(prev.index)
            Other(x) == x.path # R.name
        IN /\ R.status = "ok"
           /\ Cardinality({i \in 1..Len(e) : e[i].path = R.name}) = 1
           /\ \A i \in 1..Len(e) : e[i].path = R.name => e[i].hash = R.blob[1]
           /\ SelectSeq(e, Other) = SelectSeq(old, Other)

\* a second add of a path with another fingerprint, next to another staged path
C13_Witness ==
    /\ Returned("indexAdd")
    /\ Len(Index_load(prev.index)) = 2
    /\ Len(Index_load(index)) = 2
    /\ \E i \in 1..2 : /\ Index_load(prev.index)[i].path = R.name
                       /\ Index_load(prev.index)[i].hash # R.blob[1]
                       /\ Index_load(index)[i].hash = R.blob[1]

C15_TreeOrderIndependent ==
    Returned("createTree") => R.value[1] = R.value[2]

\* the paths of the entries of the stored tree h, in the order written
TreePathsOf(objs, h) == [i \in 1..Len(objs[h][3]) |-> objs[h][3][i][2]]

\* C16: createTree writes the entries by path ascending in byte-wise order
\* (an upper-case ASCII path before a lower-case one), the order in which the
\* staging index lists them.
C16_TreeByteOrder ==
    Returned("createTree") =>
        LET paths == TreePathsOf(objects, R.value[1]) IN
        /\ \A i \in 1..(Len(paths) - 1) : ByteRank(paths[i]) < ByteRank(paths[i + 1])
        /\ paths = [i \in 1..Len(paths) |-> SortByPath(local[Seq1].staged)[i].path]

\* C17: duplicate branch rejected. createBranch on a name that has a pointer
\* throws BranchExists; every branch pointer and HEAD stay as they were.
C17_DuplicateBranchRejected ==
    (Returned("createBranch") /\ R.name \in DOMAIN prev.refs) =>
        /\ R.status = "BranchExists"
        /\ refs = prev.refs
        /\ head = prev.head

\* a second createBranch of a branch that is not the current one and has a tip
C17_Witness ==
    /\ Returned("createBranch")
    /\ R.status = "BranchExists"
    /\ R.name # getCurrentBranch(head)
    /\ Len(refs[R.name]) > 0
    /\ refs[R.name] # Tip(Disk).val

\* C18: createBranch makes the new branch point at the tip the current branch
\* has at the call (none without a commit); HEAD, the pointer of the current
\* branch and the index stay as they were.
C18_NewBranchInheritsTip ==
    Succeeded("createBranch") =>
        /\ Tip(prev).ok
        /\ DOMAIN refs = DOMAIN prev.refs \cup {R.name}
        /\ refs[R.name] = Tip(prev).val
        /\ \A b \in DOMAIN prev.refs : refs[b] = prev.refs[b]
        /\ head = prev.head
        /\ index = prev.index

\* a branch created at a tip that has a parent, while an entry is staged
C18_Witness ==
    /\ Succeeded("createBranch")
    /\ Len(refs[R.name]) > 0
    /\ refs[R.name] = refs[getCurrentBranch(head)]
    /\ getCommit(objects, refs[R.name][1]).val.parent # None
    /\ Len(Index_load(index)) > 0

\* C19: checkout of a name that listBranches does not list throws
\* NoSuchBranch and leaves HEAD; of a listed name it succeeds, and the current
\* branch is that name afterwards.
C19_Checkout ==
    Returned("checkout") =>
        IF R.name \in Reference_listBranches(prev.refs)
        THEN R.status = "ok" /\ getCurrentBranch(head) = R.name
        ELSE R.status = "NoSuchBranch" /\ head = prev.head

\* a checkout that moved HEAD from one branch to another
C19_Witness ==
    /\ Succeeded("checkout")
    /\ getCurrentBranch(head) = R.name
    /\ getCurrentBranch(prev.head) # R.name
    /\ Len(prev.head) > 0

\* a checkout of a name without a branch, refused in an initialized repository
C19_WitnessRefused ==
    /\ Returned("checkout")
    /\ R.status = "NoSuchBranch"
    /\ R.name \notin DOMAIN refs
    /\ Len(head) > 0

\* C20: nested branch names. Once createBranch of a name with a '/' has
\* succeeded, listBranches lists the name and checkout of it succeeds.
C20_NestedBranchNames ==
    /\ \A b \in DOMAIN refs : IsNested(b) => b \in Reference_listBranches(refs)
    /\ (Returned("checkout") /\ IsNested(R.name) /\ R.name \in DOMAIN prev.refs) =>
          R.status = "ok" /\ getCurrentBranch(head) = R.name

\* C21: deleteBranch of the current branch. Whenever the name given to
\* deleteBranch is the current branch, the call fails with
\* CannotDeleteCurrent and the branches, their pointers and HEAD are as before.
C21_CannotDeleteCurrent ==
    (Returned("deleteBranch") /\ R.name = getCurrentBranch(prev.head)) =>
        /\ R.status = "CannotDeleteCurrent"
        /\ refs = prev.refs
        /\ head = prev.head

\* a refused deleteBranch of the checked-out branch feature, which has a
\* commit and is not the only branch
C21_Witness ==
    /\ Returned("deleteBranch")
    /\ R.name = "feature"
    /\ getCurrentBranch(prev.head) = "feature"
    /\ R.status = "CannotDeleteCurrent"
    /\ "master" \in DOMAIN refs
    /\ Len(refs["feature"]) > 0

\* C22: exactly one current branch. In every state of an initialized
\* repository reached by createBranch, checkout, commit and deleteBranch,
\* listBranches has exactly one entry flagged current, and its name is the
\* current branch; a listBranches call returns that list.
C22_ExactlyOneCurrent ==
    /\ Len(head) > 0 =>
          LET flagged == {e \in listBranches(head, refs) : e.current} IN
          /\ Cardinality(flagged) = 1
          /\ \A e \in flagged : e.name = getCurrentBranch(head)
    /\ Succeeded("listBranches") => R.value = listBranches(head, refs)

\* listBranches returned two entries while on feature, after master was deleted
C22_Witness ==
    /\ Succeeded("listBranches")
    /\ getCurrentBranch(head) = "feature"
    /\ "master" \notin DOMAIN refs
    /\ Cardinality(R.value) = 1
    /\ "feature/user-auth" \in DOMAIN refs

\* C23: HEAD is written by checkout and init only. add, commit, log, status,
\* createBranch, listBranches and deleteBranch leave HEAD as it was, whether
\* they succeed or fail.
C23_HeadFrame ==
    (pc[Seq1] = "done" /\ R.op \notin {"init", "checkout"}) => head = prev.head

\* a createBranch that succeeded while HEAD was on feature
C23_Witness ==
    /\ Succeeded("createBranch")
    /\ R.name = "feature/user-auth"
    /\ getCurrentBranch(prev.head) = "feature"
    /\ head = prev.head

\* C24: objects are write-once. Every fingerprint stored before an operation
\* is stored after it, with the same type, size and payload.
C24_ObjectsWriteOnce ==
    pc[Seq1] = "done" =>
        \A h \in DOMAIN prev.objects :
            h \in DOMAIN objects /\ objects[h] = prev.objects[h]

\* an add that stored again a blob the store already held, next to a commit
C24_Witness ==
    /\ Succeeded("add")
    /\ R.blob # None
    /\ R.blob[1] \in DOMAIN prev.objects
    /\ CommitObjects(objects) # {}
    /\ objects = prev.objects

\* C25: getObject on a missing or damaged object. getObject fails with
\* NotFound when no object is stored under the fingerprint, and fails with
\* Corrupt, instead of returning an object, when the length in the stored
\* header differs from the number of payload bytes.
C25_RetrieveChecksObject ==
    Returned("getObject") =>
        LET h == R.blob[1] IN
        IF h \notin DOMAIN objects THEN R.status = "NotFound"
        ELSE IF objects[h][2] # PayloadBytes(objects[h][1], objects[h][3])
        THEN R.status = "Corrupt"
        ELSE R.status = "ok"

\* getObject reports a missing object (the part of C25 the code implements)
C25_NotFound ==
    (Returned("getObject") /\ R.blob[1] \notin DOMAIN objects) => R.status = "NotFound"

\* C30: header length. For every stored blob, tree and commit the length
\* field of the header equals the number of bytes of the payload, also for
\* a commit whose message has multi-byte characters.
C30_HeaderLengthIsByteLength ==
    \A h \in DOMAIN objects :
        objects[h][2] = PayloadBytes(objects[h][1], objects[h][3])

\* the header length is right for blobs and trees, multi-byte content included
C30_BlobsAndTrees ==
    \A h \in DOMAIN objects :
        objects[h][1] \in {"blob", "tree"} =>
            objects[h][2] = PayloadBytes(objects[h][1], objects[h][3])

\* C26: add of a missing file. add of a path the working tree does not hold
\* fails with FileNotFound, stores no blob and leaves the index unchanged.
C26_AddMissingFile ==
    (Returned("add") /\ R.file = None) =>
        /\ R.status = "FileNotFound"
        /\ objects = prev.objects
        /\ index = prev.index

\* an add of a missing path refused, on a repository without an index file
\* and with nothing stored
C26_Witness ==
    /\ Returned("add")
    /\ R.file = None
    /\ R.status = "FileNotFound"
    /\ ~index.exists
    /\ DOMAIN objects = {}

\* an add of a missing path refused while another path is staged
C26_WitnessStaged ==
    /\ Returned("add")
    /\ R.file = None
    /\ R.name = "a.txt"
    /\ Staged(index, "b.txt")
    /\ ~Staged(index, "a.txt")

\* C28: init and the uninitialized repository. After init on a directory
\* without HEAD and branches the current branch is master, master exists
\* without a commit, listBranches holds master only and log is empty; a commit
\* on a directory init has not been run on never succeeds, staged entries or not.
C28_InitAndUninitialized ==
    /\ (Returned("init") /\ Len(prev.head) = 0 /\ DOMAIN prev.refs = {}) =>
          /\ R.status = "ok"
          /\ getCurrentBranch(head) = DefaultBranch
          /\ getBranchCommit(refs, DefaultBranch) = Ok(None)
          /\ {e.name : e \in listBranches(head, refs)} = {DefaultBranch}
          /\ logStep(Disk, logArgs(MaxCount), "run", now).l.status = "ok"
          /\ logStep(Disk, logArgs(MaxCount), "run", now).l.value = <<>>
    /\ (Returned("commit") /\ Len(prev.head) = 0) =>
          /\ R.status # "ok"
          /\ refs = prev.refs
          /\ Len(head) = 0

\* init on a directory that holds staged entries but no HEAD and no branch
C28_Witness ==
    /\ Succeeded("init")
    /\ Len(prev.head) = 0
    /\ DOMAIN prev.refs = {}
    /\ Len(Index_load(index)) > 0

\* a commit refused on a directory init has not been run on, with entries staged
C28_WitnessCommit ==
    /\ Returned("commit")
    /\ Len(prev.head) = 0
    /\ Len(Index_load(prev.index)) > 0
    /\ R.status = "NoSuchBranch"

\* every fingerprint in the staging index names a stored blob
IndexNamesBlobs ==
    \A i \in 1..Len(Index_load(index)) :
        LET r == getObject(objects, Index_load(index)[i].hash) IN
        r.ok /\ r.val.type = "blob"

\* the step that ends an add leaves an entry for its path in the index, with
\* the fingerprint of the blob of the file's bytes
AddRecordsBlob ==
    \A p \in Handles :
        (pc[p] = "a_save" /\ pc'[p] = "done") =>
            \E i \in 1..Len(Index_load(index')) :
                /\ Index_load(index')[i].path = local[p].path
                /\ Index_load(index')[i].hash = createBlob(<<>>, local[p].file[1]).hash

\* C27: add stores the blob before it records it. When an add returns, the
\* index entry of its path carries the fingerprint of the blob of the file's
\* bytes; and in every reachable state, the states between the steps of an
\* add and of operations interleaved with it included, every fingerprint in
\* the index names a blob that getObject returns.
C27_BlobBeforeEntry == []IndexNamesBlobs /\ [][AddRecordsBlob]_vars

\* one handle is between storing its blob and saving the index while the
\* index already holds an entry of the other path
C27_Witness ==
    /\ \E p \in Handles :
          /\ pc[p] = "a_save"
          /\ local[p].path = "b.txt"
          /\ local[p].blob # None
          /\ local[p].blob[1] \in DOMAIN objects
    /\ Staged(index, "a.txt")
    /\ ~Staged(index, "b.txt")

\* HEAD of directory content hd names no branch
Detached(hd) == Len(hd) > 0 /\ hd[1] # HeadPrefix

\* C29: detached HEAD. While HEAD is detached, a commit, createBranch or log
\* either fails or succeeds, and in both cases every existing branch keeps
\* its pointer and the staging index is not cleared; a checkout of an
\* existing branch succeeds and makes it the current branch again.
C29_DetachedHeadIsSafe ==
    /\ (pc[Seq1] = "done" /\ R.op \in {"commit", "createBranch", "log"}
           /\ Detached(prev.head)) =>
          /\ \A b \in DOMAIN prev.refs : b \in DOMAIN refs /\ refs[b] = prev.refs[b]
          /\ index = prev.index
    /\ (Returned("checkout") /\ Detached(prev.head)
           /\ R.name \in Reference_listBranches(prev.refs)) =>
          R.status = "ok" /\ getCurrentBranch(head) = R.name

\* the same as long as no branch carries the name HEAD
C29_WithoutHeadBranch ==
    /\ (pc[Seq1] = "done" /\ R.op \in {"commit", "createBranch", "log"}
           /\ Detached(prev.head) /\ "HEAD" \notin DOMAIN prev.refs) =>
          /\ R.status = "NoSuchBranch" \/ (R.op = "commit" /\ R.status = "NothingStaged")
          /\ refs = prev.refs
          /\ index = prev.index
    /\ (Returned("checkout") /\ Detached(prev.head)
           /\ R.name \in Reference_listBranches(prev.refs)) =>
          R.status = "ok" /\ getCurrentBranch(head) = R.name

\* C31: commit round trip. getCommit of the commit createCommit stored for
\* tree t, parent p, the author and message m returns tree t, parent p, the
\* author and message m, also for messages with white space or blank lines at
\* their ends and with lines that start with "tree " or "parent ".
C31_CommitRoundTrip ==
    Returned("getCommit") =>
        /\ R.status = "ok"
        /\ R.value[1].tree = local[Seq1].tree
        /\ R.value[1].parent = local[Seq1].parent
        /\ R.value[1].author = Some(Author)
        /\ R.value[1].message = local[Seq1].message

\* the round trip returns the message trimmed, everything else as given
C31_RoundTripUpToTrim ==
    Returned("getCommit") =>
        /\ R.status = "ok"
        /\ R.value[1].tree = local[Seq1].tree
        /\ R.value[1].parent = local[Seq1].parent
        /\ R.value[1].author = Some(Author)
        /\ R.value[1].message = Trim(local[Seq1].message)

\* the tree getTree reads for the commit a successful commit returned holds
\* the entries staged before the call, each once, by path ascending
TreeHoldsStaged(staged) ==
    LET c == getCommit(objects, R.value[1])
        t == getTree(objects, c.val.tree[1])
    IN /\ c.ok /\ t.ok
       /\ Len(t.val) = Len(staged)
       /\ \A i \in 1..Len(staged) :
             \E j \in 1..Len(t.val) :
                t.val[j].path = staged[i].path /\ t.val[j].hash = staged[i].hash
       /\ \A i, j \in 1..Len(t.val) :
             i < j => ByteRank(objects[c.val.tree[1]][3][i][2])
                        < ByteRank(objects[c.val.tree[1]][3][j][2])

\* C32: the tree of a commit. Reading back the tree of the commit that
\* commit returned yields one entry per staged path, with that path (also
\* when it holds a space) and that entry's blob fingerprint, by path
\* ascending, and nothing else.
C32_TreeRecordsStaged ==
    Succeeded("commit") => TreeHoldsStaged(getStagedFiles(prev.index))

\* the same for staged paths without a space
C32_WithoutSpace ==
    (Succeeded("commit") /\ ~Staged(prev.index, "my file.txt")) =>
        TreeHoldsStaged(getStagedFiles(prev.index))

\* path is an entry of the tree of commit h
InTreeOf(objs, h, path) ==
    LET t == getTree(objs, getCommit(objs, h).val.tree[1]) IN
    t.ok /\ \E i \in 1..Len(t.val) : t.val[i].path = path

\* C33: add interleaved with commit. When an add and a commit that were
\* under way at the same time have both succeeded, the path added is in the
\* tree of the new commit or still in the staging index.
C33_NoStagedEntryLost ==
    \A p, q \in Handles :
        (/\ p # q
         /\ pc[p] = "done" /\ ret[p].op = "add" /\ ret[p].status = "ok"
         /\ pc[q] = "done" /\ ret[q].op = "commit" /\ ret[q].status = "ok"
         /\ q \in ov[p] /\ p \in ov[q]) =>
            \/ Staged(index, ret[p].name)
            \/ InTreeOf(objects, ret[q].value[1], ret[p].name)

NoneOrStored(objs, h, type) ==
    Len(h) = 0 \/ (h[1] \in DOMAIN objs /\ objs[h[1]][1] = type)

\* C35: reference integrity. Between the operations every branch pointer is
\* none or the fingerprint of a stored commit; the parent of every stored
\* commit is none or a stored commit, and its tree is a stored tree.
C35_ReferenceIntegrity ==
    pc[Seq1] = "idle" =>
        /\ \A b \in DOMAIN refs : NoneOrStored(objects, refs[b], "commit")
        /\ \A h \in CommitObjects(objects) :
              LET c == getCommit(objects, h).val IN
              /\ NoneOrStored(objects, c.parent, "commit")
              /\ Len(c.tree) > 0
              /\ NoneOrStored(objects, c.tree, "tree")

\* between two operations two branches point at a commit that has a stored parent
C35_Witness ==
    /\ pc[Seq1] = "idle"
    /\ {"master", "feature"} \subseteq DOMAIN refs
    /\ Len(refs["feature"]) > 0
    /\ refs["master"] = refs["feature"]
    /\ Len(getCommit(objects, refs["feature"][1]).val.parent) > 0

\* C36: repeated init. init on a repository that is initialized changes
\* nothing: HEAD, every branch pointer, the staging index and the objects are
\* after the call as before it, error reported or not.
C36_RepeatedInitChangesNothing ==
    (Returned("init") /\ Len(prev.head) > 0) => Disk = prev

\* the same when init is repeated while master is the current branch; in
\* every case the index and the objects are left alone
C36_OnDefaultBranch ==
    (Returned("init") /\ Len(prev.head) > 0) =>
        /\ index = prev.index /\ objects = prev.objects
        /\ getCurrentBranch(prev.head) = DefaultBranch =>
              (Disk = prev /\ R.status = "BranchExists")

\* C37: checkout changes HEAD only. A checkout, successful or refused, leaves
\* every branch pointer, the objects and the staging index as they were, so
\* what was staged stays staged; and a successful commit records the entries
\* staged at its call on the branch that is current at its call, which then
\* points at the new commit while every other branch keeps its pointer.
C37_CheckoutChangesHeadOnly ==
    /\ Returned("checkout") =>
          refs = prev.refs /\ objects = prev.objects /\ index = prev.index
    /\ Succeeded("commit") =>
          /\ TreeHoldsStaged(getStagedFiles(prev.index))
          /\ refs[getCurrentBranch(prev.head)] = R.value
          /\ \A b \in DOMAIN prev.refs :
                b # getCurrentBranch(prev.head) => refs[b] = prev.refs[b]

\* a checkout moved HEAD to another branch while an entry was staged
C37_Witness ==
    /\ Succeeded("checkout")
    /\ head # prev.head
    /\ Len(prev.head) > 0
    /\ Staged(prev.index, "a.txt")
    /\ Staged(index, "a.txt")

\* a commit on feature recorded a.txt and left master where it was
C37_WitnessCommit ==
    /\ Succeeded("commit")
    /\ getCurrentBranch(head) = "feature"
    /\ Staged(prev.index, "a.txt")
    /\ InTreeOf(objects, R.value[1], "a.txt")
    /\ "master" \in DOMAIN refs
    /\ refs["master"] # refs["feature"]

====
